---- MODULE Spec2Model ----
(***************************************************************************)
(* Model of the pycoustics browser client: the useAudioStream hook (in its *)
(* ScriptProcessorNode version, hooks/useAudioStream.ts, and in its        *)
(* AudioWorklet version, unnamed/part_001 with the processor of            *)
(* unnamed/part_000) and the App component that drives it.                 *)
(***************************************************************************)
EXTENDS Integers, Sequences, FiniteSets, TLC

(***************************************************************************)
(* PCM encoder (useAudioStream.ts 96-115, part_000 6-33).                  *)
(*                                                                         *)
(* A float sample is a record: nan says whether it is NaN, and otherwise   *)
(* it is the number n / Den.  The products with 0x8000 and 0x7FFF are      *)
(* carried as numerators over Den as well, so nothing is rounded before    *)
(* the store into the Int16Array.                                          *)
(***************************************************************************)
Den == 10
MaxFrames == 2

NaN == [nan |-> TRUE, n |-> 0]

Num(k) == [nan |-> FALSE, n |-> k]

\* Math.min / Math.max: NaN if either argument is NaN.
MathMin(a, b) == IF a.nan \/ b.nan THEN NaN ELSE IF a.n < b.n THEN a ELSE b

MathMax(a, b) == IF a.nan \/ b.nan THEN NaN ELSE IF a.n > b.n THEN a ELSE b

\* Math.max(-1, Math.min(1, s))
Clamp(s) == MathMax(Num(-Den), MathMin(Num(Den), s))

\* s < 0 ? s * 0x8000 : s * 0x7FFF   (NaN < 0 is false, NaN * k is NaN).
Scale(s) == IF s.nan THEN NaN ELSE IF s.n < 0 THEN Num(s.n * 32768) ELSE Num(s.n * 32767)

ToInt16Floor(p) ==
    IF p.nan THEN 0 ELSE (((p.n \div Den) + 32768) % 65536) - 32768

\* Storing a number into an Int16Array element: NaN becomes 0, otherwise the
\* fraction is dropped (toward zero) and the integer is taken modulo 2^16
\* into [-32768, 32767].
ToInt16(p) ==
    IF p.nan THEN 0
    ELSE LET t == IF p.n >= 0 THEN p.n \div Den ELSE -((-p.n) \div Den)
         IN  ((t + 32768) % 65536) - 32768

\* A sample as a Float32Array element holds it, for the values the decimal
\* samples cannot express: sign, and the number m / 2^e with m < 2^24.
Float32(neg, m, e) == [nan |-> FALSE, neg |-> neg, m |-> m, e |-> e]

IsFloat32(s) == "e" \in DOMAIN s

\* Math.max(-1, Math.min(1, s)) on a Float32 sample.
ClampFloat32(s) ==
    IF s.e < 24 /\ s.m > 2 ^ s.e THEN Float32(s.neg, 1, 0) ELSE s

\* s < 0 ? s * 0x8000 : s * 0x7FFF on a Float32 sample, then the store into
\* the Int16Array.  The product of a 24-bit significand and a 16-bit integer
\* is exact in a double; it is computed here in two limbs of 12 bits, and the
\* store drops its fraction.
ScaleToInt16Float32(s) ==
    LET k == IF s.neg /\ s.m > 0 THEN 32768 ELSE 32767
        lo == (s.m % 4096) * k
        hi == (s.m \div 4096) * k + (lo \div 4096)
        t == IF s.e >= 12 THEN hi \div (2 ^ (s.e - 12)) ELSE (s.m * k) \div (2 ^ s.e)
        v == IF s.neg THEN -t ELSE t
    IN  ((v + 32768) % 65536) - 32768

EncodeFloat32(s) == ScaleToInt16Float32(ClampFloat32(s))

EncodeSample(s) == IF IsFloat32(s) THEN EncodeFloat32(s) ELSE ToInt16(Scale(Clamp(s)))

EncodeLoopSwapped(inputL, inputR, i, pcmIndex, pcmData) ==
    LET RECURSIVE Go(_, _, _)
        Go(k, idx, acc) ==
            IF k > Len(inputL) THEN acc
            ELSE Go(k + 1, idx + 2,
                    [acc EXCEPT ![idx] = EncodeSample(inputR[k]),
                                ![idx + 1] = EncodeSample(inputL[k])])
    IN Go(i, pcmIndex, pcmData)

\* for (let i = 0; i < length; i++) { pcmData[pcmIndex++] = L; pcmData[pcmIndex++] = R; }
\* (sequences are 1-based: element i of the model is element i-1 of the array)
EncodeLoop(inputL, inputR, i, pcmIndex, pcmData) ==
    LET RECURSIVE Go(_, _, _)
        Go(k, idx, acc) ==
            IF k > Len(inputL) THEN acc
            ELSE Go(k + 1, idx + 2,
                    [acc EXCEPT ![idx] = EncodeSample(inputL[k]),
                                ![idx + 1] = EncodeSample(inputR[k])])
    IN Go(i, pcmIndex, pcmData)

\* new Int16Array(length * 2) is zero-filled, the loop then fills it.
EncodePCM(inputL, inputR) ==
    EncodeLoop(inputL, inputR, 1, 1, [j \in 1..(2 * Len(inputL)) |-> 0])

NoFrame == [ok |-> FALSE, data |-> <<>>]

Frame(pcmData) == [ok |-> TRUE, data |-> pcmData]

RightOfSilence(channels) ==
    IF Len(channels) > 1 THEN channels[2] ELSE [i \in 1..Len(channels[1]) |-> Num(0)]

\* numberOfChannels > 1 ? channel 1 : inputL   (mono source duplicated)
RightOf(channels) == IF Len(channels) > 1 THEN channels[2] ELSE channels[1]

\* The body of onaudioprocess once the socket is known to be open: the frame
\* handed to send(), or NoFrame on the early return.
ScriptProcessorFrame(channels) ==
    LET inputL == channels[1]
        inputR == RightOf(channels)
    IN  IF Len(inputL) # Len(inputR) THEN NoFrame ELSE Frame(EncodePCM(inputL, inputR))

\* PCMProcessor.process: the buffer posted to the port, or NoFrame when the
\* node has no input.
WorkletFrame(channels) ==
    IF Len(channels) = 0 THEN NoFrame
    ELSE Frame(EncodePCM(channels[1], RightOf(channels)))

(***************************************************************************)
(* State.                                                                  *)
(***************************************************************************)
VARIABLES
    variant,            \* "script": hooks/useAudioStream.ts, "worklet": part_001 + part_000
    contextRate,        \* the sample rate the AudioContexts of this client run at
    sessionIdRef,       \* sessionIdRef.current
    sessionId,          \* the sessionId returned by the latest render
    sockets,            \* every WebSocket created: readyState, url, summary of its send() calls
    socketRef,          \* socketRef.current: index into sockets, 0 is null
    contexts,           \* every AudioContext created: sampleRate, closed
    audioContextRef,    \* audioContextRef.current: index into contexts, 0 is null
    calls,              \* every startAudio invocation: where it stands, its context, its port queue
    isConnected, isRecording, rms, spectrum, panning, lastRecording,
    received,           \* the message ws.onmessage handled last, and a bit it flips each time
    effectActive,       \* the effects are set up (and not cleaned up)
    events,             \* things that happened to the client so far
    gain, cutoff, filterEnabled, integrationTime, started,
    paramsEffectPending,\* App's set_params effect is scheduled
    fetchPending,       \* App's fetchRecordings effect is scheduled
    lastFetch,          \* session_id of the latest GET /recordings request, 0 if none
    library,            \* how many times so far: GET /recordings was requested, the
                        \* effects were set up, recording_saved was received, a DELETE
                        \* was answered ok; and how many DELETE requests await their answer
    inputBuffer, pcmOut, encoder,  \* the encoder run on its own
    pan, indicator,     \* PanningViewer on its own: its prop, in units of 1/PanDen, and
                        \* the centre of the indicator its effect drew
    pcmIn               \* the 16-bit sample the chunk was decoded from, when it was

envVars == <<variant, contextRate>>
sockVars == <<sockets, socketRef>>
audioVars == <<contexts, audioContextRef, calls>>
recVars == <<isRecording, lastRecording>>
meterVars == <<rms, spectrum, panning, received>>
paramVars == <<gain, cutoff, filterEnabled, integrationTime>>
effectVars == <<paramsEffectPending, fetchPending, lastFetch, library>>
hookVars == <<sessionIdRef, sessionId, sockets, socketRef, contexts, audioContextRef,
              calls, isConnected, isRecording, rms, spectrum, panning,
              lastRecording, received, effectActive, events>>
appVars == <<gain, cutoff, filterEnabled, integrationTime, started,
             paramsEffectPending, fetchPending, lastFetch, library>>
codecVars == <<inputBuffer, pcmOut, encoder, pcmIn>>
viewVars == <<pan, indicator>>
vars == <<variant, contextRate, hookVars, appVars, codecVars, viewVars>>

(***************************************************************************)
(* Bounds of the model and the values its inputs are drawn from.           *)
(***************************************************************************)
MaxStarts == 2      \* startAudio invocations
MaxEvents == 3      \* things that happen to the client: clicks, edits, server messages,
                    \* captured chunks, cleanups and re-runs of the effects
MaxIds == 2         \* distinct strings the Math.random() expression can give

Ids == 1..MaxIds

\* Sample rates of output devices: a narrowband hands-free headset and the
\* two usual rates of sound cards.
DeviceRates == {8000, 44100, 48000}

\* The rate an AudioContext of the variant runs at: the one asked for in
\* useAudioStream.ts, the one of the output device in part_001.
ContextRates == IF variant = "script" THEN {44100} ELSE DeviceRates

\* The chunks drawn while streaming: one stereo frame.
StreamBuffers == {<<<<Num(Den)>>, <<Num(-3)>>>>}

\* <input type="range"> of App: gain in tenths of a dB, integration time in
\* hundredths of a second, cutoff in Hz.
GainMin == 0
GainMax == 600
CutoffMin == 100
CutoffMax == 5000
IntegrationMin == 0
IntegrationMax == 200

\* The positions the model moves a slider to: the two ends of its range.
SliderEnds(min, max) == {min, max}

(***************************************************************************)
(* Messages.                                                               *)
(***************************************************************************)
InitMsg(rate, ch) == [action |-> "init", sample_rate |-> rate, channels |-> ch]

StartRecordMsg(rate, ch) == [action |-> "start_record", sample_rate |-> rate, channels |-> ch]

StopRecordMsg == [action |-> "stop_record"]

SetParamsMsg(g, f, c, it) ==
    [action |-> "set_params", gain |-> g, filter_enabled |-> f,
     cutoff_freq |-> c, integration_time |-> it]

\* A binary frame.  chunk (which invocation's pipeline captured it, and its
\* number in capture order) and openAtCapture are bookkeeping of the model.
BinaryMsg(ch) ==
    [action |-> "binary", data |-> ch.data, chunk |-> ch.chunk,
     openAtCapture |-> ch.openAtCapture]

\* What the server may send: JSON objects as ws.onmessage sees them after
\* JSON.parse.  The last two are not messages of the protocol: one has
\* another type and the fields of a meter message, one has no type
\* (data.type is undefined) and the fields of a recording_saved message.
ServerMessages ==
    { [type |-> "meter", rms |-> -20, hasSpectrum |-> TRUE, spectrum |-> <<1>>,
       hasPanning |-> TRUE, panning |-> 1],
      [type |-> "meter", rms |-> -30, hasSpectrum |-> FALSE, spectrum |-> <<>>,
       hasPanning |-> FALSE, panning |-> 0],
      [type |-> "recording_saved", id |-> 1, filename |-> "rec1.wav"],
      [type |-> "recording_saved", id |-> 2, filename |-> "rec2.wav"],
      [type |-> "other", rms |-> -40, hasSpectrum |-> TRUE, spectrum |-> <<2>>,
       hasPanning |-> TRUE, panning |-> -1],
      [type |-> "undefined", id |-> 3, filename |-> "rec3.wav"] }

(***************************************************************************)
(* The hook.                                                               *)
(***************************************************************************)
UseRefFresh(current, initialValue) == initialValue

\* useRef(initialValue) on a render after the first: the ref made by the
\* first render is returned, the argument is evaluated and ignored.
UseRef(current, initialValue) == current

\* A render of App: the hook body runs again, the Math.random() expression
\* of line 25 gives some string r, and the hook returns sessionIdRef.current.
Render ==
    \E r \in Ids :
        /\ sessionIdRef' = UseRef(sessionIdRef, r)
        /\ sessionId' = sessionIdRef'

NoRender == UNCHANGED <<sessionIdRef, sessionId>>

IsOpenOrConnecting(ref) == ref # 0 /\ sockets[ref].readyState \in {"CONNECTING", "OPEN"}

\* socketRef.current?.readyState === WebSocket.OPEN
IsOpen(ref) == ref # 0 /\ sockets[ref].readyState = "OPEN"

\* audioContextRef.current?.sampleRate || 44100
SampleRateOf(ref) == IF ref = 0 THEN 44100 ELSE contexts[ref].sampleRate

\* audioContextRef.current?.destination.channelCount || 2
ChannelsOf(ref) == IF ref = 0 THEN 2 ELSE contexts[ref].channelCount

NoMsg == [action |-> "none"]

SendTwice(socks, s, m) ==
    [socks EXCEPT ![s].count = @ + 2,
                  ![s].first = IF @.action = "none" THEN m ELSE @,
                  ![s].last = m,
                  ![s].params = IF m.action = "set_params" THEN m ELSE @,
                  ![s].frames = IF m.action = "binary" THEN Append(Append(@, m), m) ELSE @]

\* ws.send(m).  Of the messages sent on a socket the model keeps how many
\* they are, the first, the latest, the latest set_params, and the binary
\* frames in the order sent.
Send(socks, s, m) ==
    [socks EXCEPT ![s].count = @ + 1,
                  ![s].first = IF @.action = "none" THEN m ELSE @,
                  ![s].last = m,
                  ![s].params = IF m.action = "set_params" THEN m ELSE @,
                  ![s].frames = IF m.action = "binary" THEN Append(@, m) ELSE @]

\* new WebSocket(`${wsUrl}/ws/audio?session_id=${sessionIdRef.current}`)
NewSocket ==
    [readyState |-> "CONNECTING", session_id |-> sessionIdRef,
     count |-> 0, first |-> NoMsg, last |-> NoMsg, params |-> NoMsg, frames |-> <<>>]

\* connectWebSocket()
ConnectWebSocket ==
    IF IsOpen(socketRef)
    THEN UNCHANGED <<sockets, socketRef>>
    ELSE /\ sockets' = Append(sockets, NewSocket)
         /\ socketRef' = Len(sockets) + 1

\* ws.close(): an open or connecting socket starts closing.
CloseSocket(socks, ref) ==
    IF ref # 0 /\ socks[ref].readyState \in {"CONNECTING", "OPEN"}
    THEN [socks EXCEPT ![ref].readyState = "CLOSING"]
    ELSE socks

\* audioContext.close()
CloseContext(ctxs, ref) ==
    IF ref # 0 THEN [ctxs EXCEPT ![ref].closed = TRUE] ELSE ctxs

SetSettingsUnguarded(socks, ref, g, f, c, it) ==
    IF ref # 0 THEN Send(socks, ref, SetParamsMsg(g, f, c, it)) ELSE socks

\* setSettings(g, f, c, it) on the sockets socks
SetSettings(socks, ref, g, f, c, it) ==
    IF ref # 0 /\ socks[ref].readyState = "OPEN"
    THEN Send(socks, ref, SetParamsMsg(g, f, c, it))
    ELSE socks

\* One more thing happens to the client.
Event == events < MaxEvents /\ events' = events + 1

\* React sets the effects up, in the order of their declaration: the hook's
\* (connectWebSocket()), then App's two (fetchRecordings(), setSettings(...)).
\* The first time is the mount; a later time follows a cleanup.
EffectSetup ==
    /\ ~effectActive
    /\ IF Len(sockets) = 0 THEN UNCHANGED events ELSE Event
    /\ effectActive' = TRUE
    /\ IF IsOpen(socketRef)
       THEN /\ sockets' = SetSettings(sockets, socketRef, gain, filterEnabled, cutoff,
                                      integrationTime)
            /\ UNCHANGED socketRef
       ELSE ConnectWebSocket
    /\ lastFetch' = sessionId
    /\ library' = [library EXCEPT !.fetches = @ + 1, !.mounts = @ + 1]
    /\ paramsEffectPending' = FALSE
    /\ fetchPending' = FALSE
    /\ NoRender
    /\ UNCHANGED <<envVars, audioVars, isConnected, recVars, meterVars, paramVars,
                   started, codecVars, viewVars>>

\* The cleanup of the hook's effect.
EffectCleanup ==
    /\ effectActive
    /\ Event
    /\ sockets' = CloseSocket(sockets, socketRef)
    /\ contexts' = CloseContext(contexts, audioContextRef)
    /\ effectActive' = FALSE
    /\ NoRender
    /\ UNCHANGED <<envVars, socketRef, audioContextRef, calls, isConnected, recVars,
                   meterVars, paramVars, started, effectVars, codecVars, viewVars>>

\* The connection is established: readyState becomes OPEN and ws.onopen runs
\* in the same task.
WsOpen(s) ==
    /\ sockets[s].readyState = "CONNECTING"
    /\ isConnected' = TRUE
    /\ sockets' = Send([sockets EXCEPT ![s].readyState = "OPEN"], s,
                       InitMsg(SampleRateOf(audioContextRef), ChannelsOf(audioContextRef)))
    /\ paramsEffectPending' = (paramsEffectPending \/ ~isConnected)
    /\ Render
    /\ UNCHANGED <<envVars, socketRef, audioVars, recVars, meterVars, effectActive,
                   events, paramVars, started, fetchPending, lastFetch, library, codecVars, viewVars>>

\* The connection fails or ends: readyState becomes CLOSED and ws.onclose runs.
WsClose(s) ==
    /\ sockets[s].readyState # "CLOSED"
    /\ sockets' = [sockets EXCEPT ![s].readyState = "CLOSED"]
    /\ isConnected' = FALSE
    /\ paramsEffectPending' = (paramsEffectPending \/ isConnected)
    /\ Render
    /\ UNCHANGED <<envVars, socketRef, audioVars, recVars, meterVars, effectActive,
                   events, paramVars, started, fetchPending, lastFetch, library, codecVars, viewVars>>

SavedRecordingWhole(data) == <<data>>

\* setLastRecording({ id: data.id, filename: data.filename })
SavedRecording(data) == <<[id |-> data.id, filename |-> data.filename]>>

NextSpectrumAlways(data, current) == data.spectrum

\* if (data.spectrum) setSpectrum(data.spectrum)
NextSpectrum(data, current) == IF data.hasSpectrum THEN data.spectrum ELSE current

\* if (data.panning !== undefined) setPanning(data.panning)
NextPanning(data, current) == IF data.hasPanning THEN data.panning ELSE current

DepsChangedByValue(prev, next) == prev # next

\* useEffect(..., [lastRecording]): React compares the dependency with
\* Object.is, and setLastRecording is given a new object literal each time.
DepsChanged(prev, next) == TRUE

IsMeterByFields(data) == "rms" \in DOMAIN data

\* data.type === 'meter'
IsMeter(data) == data.type = "meter"

\* data.type === 'recording_saved'
IsRecordingSaved(data) == data.type = "recording_saved"

\* ws.onmessage
WsMessage(s, data) ==
    /\ sockets[s].readyState = "OPEN"
    /\ Event
    /\ IF IsMeter(data)
       THEN /\ rms' = data.rms
            /\ spectrum' = NextSpectrum(data, spectrum)
            /\ panning' = NextPanning(data, panning)
            /\ UNCHANGED <<lastRecording, isRecording, fetchPending, library>>
       ELSE IF IsRecordingSaved(data)
       THEN /\ lastRecording' = SavedRecording(data)
            /\ isRecording' = FALSE
            /\ fetchPending' = (fetchPending \/ DepsChanged(lastRecording, lastRecording'))
            /\ library' = [library EXCEPT !.notices = @ + 1]
            /\ UNCHANGED <<rms, spectrum, panning>>
       ELSE UNCHANGED <<rms, spectrum, panning, lastRecording, isRecording, fetchPending,
                        library>>
    /\ received' = [data |-> data, flip |-> ~received.flip]
    /\ Render
    /\ UNCHANGED <<envVars, sockVars, audioVars, isConnected, effectActive, paramVars,
                   started, paramsEffectPending, lastFetch, codecVars, viewVars>>

(***************************************************************************)
(* startAudio and the capture pipeline.                                    *)
(***************************************************************************)
\* new AudioContext({ sampleRate: 44100 }) in useAudioStream.ts,
\* new AudioContext() in part_001.
NewAudioContext ==
    [sampleRate |-> contextRate, channelCount |-> 2, moduleLoaded |-> FALSE, closed |-> FALSE]

NewCall == [pc |-> "getUserMedia", ctx |-> 0, captured |-> 0, port |-> <<>>]

CapturingFailedToo(c) == calls[c].pc \in {"running", "failed"}

\* The pipeline of invocation c is capturing.
Capturing(c) ==
    /\ calls[c].pc = "running"
    /\ ~contexts[calls[c].ctx].closed

\* handleStart: startAudio() up to its await of getUserMedia.
ClickInitialize ==
    /\ effectActive
    /\ ~started
    /\ Len(calls) < MaxStarts
    /\ Event
    /\ IF socketRef = 0 THEN ConnectWebSocket ELSE UNCHANGED <<sockets, socketRef>>
    /\ calls' = Append(calls, NewCall)
    /\ NoRender
    /\ UNCHANGED <<envVars, contexts, audioContextRef, isConnected, recVars, meterVars,
                   effectActive, paramVars, started, effectVars, codecVars, viewVars>>

\* getUserMedia rejects: the catch logs, startAudio resolves and handleStart
\* goes on to setStarted(true).
GetUserMediaReject(c) ==
    /\ calls[c].pc = "getUserMedia"
    /\ calls' = [calls EXCEPT ![c].pc = "failed"]
    /\ started' = TRUE
    /\ Render
    /\ UNCHANGED <<envVars, sockVars, contexts, audioContextRef, isConnected, recVars,
                   meterVars, effectActive, events, paramVars, effectVars, codecVars, viewVars>>

\* getUserMedia resolves.  useAudioStream.ts: context, source and processor
\* are made and connected, startAudio resolves, handleStart sets started.
\* part_001: context and source are made, then addModule is awaited.
GetUserMediaResolve(c) ==
    /\ calls[c].pc = "getUserMedia"
    /\ contexts' = Append(contexts, NewAudioContext)
    /\ audioContextRef' = Len(contexts) + 1
    /\ IF variant = "script"
       THEN /\ calls' = [calls EXCEPT ![c].pc = "running", ![c].ctx = Len(contexts) + 1]
            /\ started' = TRUE
            /\ Render
       ELSE /\ calls' = [calls EXCEPT ![c].pc = "addModule", ![c].ctx = Len(contexts) + 1]
            /\ UNCHANGED started
            /\ NoRender
    /\ UNCHANGED <<envVars, sockVars, isConnected, recVars, meterVars, effectActive,
                   events, paramVars, effectVars, codecVars, viewVars>>

\* addModule rejects: startAudio returns.
AddModuleReject(c) ==
    /\ calls[c].pc = "addModule"
    /\ calls' = [calls EXCEPT ![c].pc = "failed"]
    /\ started' = TRUE
    /\ Render
    /\ UNCHANGED <<envVars, sockVars, contexts, audioContextRef, isConnected, recVars,
                   meterVars, effectActive, events, paramVars, effectVars, codecVars, viewVars>>

\* addModule resolves: new AudioWorkletNode(audioContextRef.current, ...) is
\* made in whatever context the ref holds now; it throws (and the outer
\* catch ends startAudio) if that context has not loaded the module.
AddModuleResolve(c) ==
    /\ calls[c].pc = "addModule"
    /\ LET loaded == [contexts EXCEPT ![calls[c].ctx].moduleLoaded = TRUE]
       IN  /\ contexts' = loaded
           /\ calls' = IF loaded[audioContextRef].moduleLoaded
                       THEN [calls EXCEPT ![c].pc = "running", ![c].ctx = audioContextRef]
                       ELSE [calls EXCEPT ![c].pc = "failed"]
    /\ started' = TRUE
    /\ Render
    /\ UNCHANGED <<envVars, sockVars, audioContextRef, isConnected, recVars, meterVars,
                   effectActive, events, paramVars, effectVars, codecVars, viewVars>>

\* processorRef.current.onaudioprocess (useAudioStream.ts)
OnAudioProcess(c, buf) ==
    /\ variant = "script"
    /\ Capturing(c)
    /\ Event
    /\ LET frame == ScriptProcessorFrame(buf)
           ch == [chunk |-> <<c, calls[c].captured + 1>>, data |-> frame.data,
                  openAtCapture |-> IsOpen(socketRef)]
       IN  sockets' = IF IsOpen(socketRef) /\ frame.ok
                      THEN Send(sockets, socketRef, BinaryMsg(ch))
                      ELSE sockets
    /\ calls' = [calls EXCEPT ![c].captured = @ + 1]
    /\ NoRender
    /\ UNCHANGED <<envVars, socketRef, contexts, audioContextRef, isConnected, recVars,
                   meterVars, effectActive, paramVars, started, effectVars, codecVars, viewVars>>

\* PCMProcessor.process on the audio thread (part_000): the encoded chunk is
\* posted to the node's port.
WorkletProcess(c, input) ==
    /\ variant = "worklet"
    /\ Capturing(c)
    /\ events < MaxEvents
    /\ LET frame == WorkletFrame(input)
           ch == [chunk |-> <<c, calls[c].captured + 1>>, data |-> frame.data,
                  openAtCapture |-> IsOpen(socketRef)]
       IN  IF frame.ok
           THEN /\ calls' = [calls EXCEPT ![c].port = Append(@, ch),
                                          ![c].captured = @ + 1]
                /\ events' = events + 1
           ELSE UNCHANGED <<calls, events>>
    /\ NoRender
    /\ UNCHANGED <<envVars, sockVars, contexts, audioContextRef, isConnected, recVars,
                   meterVars, effectActive, paramVars, started, effectVars, codecVars, viewVars>>

\* workletNodeRef.current.port.onmessage (part_001): the oldest posted chunk
\* is delivered on the main thread.
PortOnMessage(c) ==
    /\ Len(calls[c].port) > 0
    /\ sockets' = IF IsOpen(socketRef)
                  THEN Send(sockets, socketRef, BinaryMsg(Head(calls[c].port)))
                  ELSE sockets
    /\ calls' = [calls EXCEPT ![c].port = Tail(@)]
    /\ NoRender
    /\ UNCHANGED <<envVars, socketRef, contexts, audioContextRef, isConnected, recVars,
                   meterVars, effectActive, events, paramVars, started, effectVars,
                   codecVars, viewVars>>

(***************************************************************************)
(* Recording and parameters: the hook's functions and App's controls.      *)
(***************************************************************************)
StartButtonAlways == TRUE

\* {!isRecording ? <button onClick={startRecording}> : <button onClick={stopRecording}>}
StartButtonShown == ~isRecording

\* startRecording(), from the Start Recording button
ClickStartRecording ==
    /\ effectActive /\ started /\ StartButtonShown
    /\ Event
    /\ IF IsOpen(socketRef)
       THEN /\ sockets' = Send(sockets, socketRef,
                               StartRecordMsg(SampleRateOf(audioContextRef),
                                              ChannelsOf(audioContextRef)))
            /\ isRecording' = TRUE
            /\ Render
       ELSE /\ UNCHANGED <<sockets, isRecording>>
            /\ NoRender
    /\ UNCHANGED <<envVars, socketRef, audioVars, isConnected, lastRecording, meterVars,
                   effectActive, paramVars, started, effectVars, codecVars, viewVars>>

\* stopRecording(), from the Stop Recording button
ClickStopRecording ==
    /\ effectActive /\ started /\ ~StartButtonShown
    /\ Event
    /\ sockets' = IF IsOpen(socketRef)
                  THEN Send(sockets, socketRef, StopRecordMsg)
                  ELSE sockets
    /\ NoRender
    /\ UNCHANGED <<envVars, socketRef, audioVars, isConnected, recVars, meterVars,
                   effectActive, paramVars, started, effectVars, codecVars, viewVars>>

\* The controls exist once started is true; an edit re-renders App and
\* schedules the set_params effect.
Edit ==
    /\ effectActive /\ started
    /\ Event
    /\ paramsEffectPending' = TRUE
    /\ Render
    /\ UNCHANGED <<envVars, sockVars, audioVars, isConnected, recVars, meterVars,
                   effectActive, started, fetchPending, lastFetch, library, codecVars, viewVars>>

\* gain slider: min 0, max 60, step 0.1
SetGain(v) ==
    /\ v # gain
    /\ gain' = v
    /\ Edit
    /\ UNCHANGED <<cutoff, filterEnabled, integrationTime>>

\* integration time slider: min 0, max 2, step 0.05
SetIntegrationTime(v) ==
    /\ v # integrationTime
    /\ integrationTime' = v
    /\ Edit
    /\ UNCHANGED <<gain, cutoff, filterEnabled>>

\* filter checkbox
ToggleFilter ==
    /\ filterEnabled' = ~filterEnabled
    /\ Edit
    /\ UNCHANGED <<gain, cutoff, integrationTime>>

\* cutoff slider: min 100, max 5000, step 100.  While the filter is off its
\* wrapper has pointer-events none, which stops the mouse only: the input is
\* not disabled and the keyboard still moves it.
SetCutoff(v) ==
    /\ v # cutoff
    /\ cutoff' = v
    /\ Edit
    /\ UNCHANGED <<gain, filterEnabled, integrationTime>>

\* React runs the scheduled effects of App, in the order of their
\* declaration: fetchRecordings() (deps [lastRecording]), then
\* setSettings(gain, filterEnabled, cutoff, integrationTime) (deps
\* [gain, cutoff, filterEnabled, integrationTime, isConnected]).
FlushEffects ==
    /\ effectActive
    /\ paramsEffectPending \/ fetchPending
    /\ lastFetch' = IF fetchPending THEN sessionId ELSE lastFetch
    /\ library' = IF fetchPending THEN [library EXCEPT !.fetches = @ + 1] ELSE library
    /\ sockets' = IF paramsEffectPending
                  THEN SetSettings(sockets, socketRef, gain, filterEnabled, cutoff,
                                   integrationTime)
                  ELSE sockets
    /\ paramsEffectPending' = FALSE
    /\ fetchPending' = FALSE
    /\ NoRender
    /\ UNCHANGED <<envVars, socketRef, audioVars, isConnected, recVars, meterVars,
                   effectActive, events, paramVars, started, codecVars, viewVars>>

\* deleteRecording(e, filename), from the trash button of a recording in the
\* list, up to its await: the user refuses the confirm() and the handler
\* returns, or accepts it and the DELETE request is sent.
DeleteRecording(confirmed) ==
    /\ effectActive /\ started
    /\ Event
    /\ library' = IF confirmed THEN [library EXCEPT !.pending = @ + 1] ELSE library
    /\ NoRender
    /\ UNCHANGED <<envVars, sockVars, audioVars, isConnected, recVars, meterVars,
                   effectActive, paramVars, started, paramsEffectPending, fetchPending,
                   lastFetch, codecVars, viewVars>>

\* deleteRecording after its await: a DELETE request is answered (ok or
\* not) or fails, whatever has happened to the hook in between; if
\* response.ok, fetchRecordings() is called.
DeleteAnswered(outcome) ==
    /\ library.pending > 0
    /\ IF outcome = "ok"
       THEN /\ lastFetch' = sessionId
            /\ library' = [library EXCEPT !.pending = @ - 1, !.fetches = @ + 1,
                                          !.deletes = @ + 1]
       ELSE /\ library' = [library EXCEPT !.pending = @ - 1]
            /\ UNCHANGED lastFetch
    /\ NoRender
    /\ UNCHANGED <<envVars, sockVars, audioVars, isConnected, recVars, meterVars,
                   effectActive, events, paramVars, started, paramsEffectPending,
                   fetchPending, codecVars, viewVars>>

DeleteOutcomes == {"ok", "not ok", "error"}

(***************************************************************************)
(* The encoder on its own: one captured chunk, encoded by either version.  *)
(***************************************************************************)
Samples == {NaN, Num(-Den - 1), Num(-Den), Num(-3), Num(0), Num(7), Num(Den), Num(Den + 1)}

\* A chunk as the callback sees it: one Float32Array per channel, all of the
\* same length (an AudioBuffer, or one input of the worklet node, which has
\* no channel at all while nothing is connected).
IsBuffer(channels) ==
    \/ channels = <<>>
    \/ \E n \in 1..MaxFrames : \E l \in [1..n -> Samples] :
          \/ channels = <<l>>
          \/ \E r \in [1..n -> Samples] : channels = <<l, r>>

NotDrawn == [drawn |-> FALSE]

\* PanningViewer with pan 0, before its effect has run.
ViewerIdle == pan = 0 /\ indicator = NotDrawn

HookInit ==
    /\ sessionIdRef = 1
    /\ sessionId = 1
    /\ sockets = <<>>
    /\ socketRef = 0
    /\ contexts = <<>>
    /\ audioContextRef = 0
    /\ calls = <<>>
    /\ isConnected = FALSE
    /\ isRecording = FALSE
    /\ rms = -100
    /\ spectrum = <<>>
    /\ panning = 0
    /\ lastRecording = <<>>
    /\ received = [data |-> [type |-> "none"], flip |-> FALSE]
    /\ effectActive = FALSE
    /\ events = 0

AppInit ==
    /\ gain = 0
    /\ cutoff = 1000
    /\ filterEnabled = FALSE
    /\ integrationTime = 50
    /\ started = FALSE
    /\ paramsEffectPending = TRUE
    /\ fetchPending = TRUE
    /\ lastFetch = 0
    /\ library = [fetches |-> 0, mounts |-> 0, notices |-> 0, deletes |-> 0, pending |-> 0]

CodecInit ==
    /\ variant = "script"
    /\ contextRate \in ContextRates
    /\ HookInit
    /\ AppInit
    /\ IsBuffer(inputBuffer)
    /\ pcmOut = NoFrame
    /\ encoder = "idle"
    /\ pcmIn = 0
    /\ ViewerIdle

\* onaudioprocess on e.inputBuffer (an AudioBuffer has at least one channel)
CodecScript ==
    /\ encoder = "idle"
    /\ Len(inputBuffer) >= 1
    /\ pcmOut' = ScriptProcessorFrame(inputBuffer)
    /\ encoder' = "script"
    /\ UNCHANGED <<envVars, hookVars, appVars, inputBuffer, pcmIn, viewVars>>

\* PCMProcessor.process on inputs[0]
CodecWorklet ==
    /\ encoder = "idle"
    /\ pcmOut' = WorkletFrame(inputBuffer)
    /\ encoder' = "worklet"
    /\ UNCHANGED <<envVars, hookVars, appVars, inputBuffer, pcmIn, viewVars>>

CodecNext == CodecScript \/ CodecWorklet

SpecCodec == CodecInit /\ [][CodecNext]_vars

\* An encoder has run and produced a frame.
Encoded == encoder # "idle" /\ pcmOut.ok

(***************************************************************************)
(* The round trip: a 16-bit sample is decoded as the server decodes it, the *)
(* float is held by a Float32Array, and the chunk is encoded again.         *)
(***************************************************************************)
\* The float32 nearest to a / b (ties to even), for integers 0 <= a <= b:
\* the quotient by long division up to 24 significant bits, then rounded by
\* the remainder.  This is what a Float32Array element holds of a / b.
Fround(neg, a, b) ==
    LET RECURSIVE Go(_, _, _)
        Go(m, r, e) ==
            IF m >= 2 ^ 23 \/ r = 0 THEN <<m, r, e>>
            ELSE IF 2 * r >= b THEN Go(2 * m + 1, 2 * r - b, e + 1)
                 ELSE Go(2 * m, 2 * r, e + 1)
        d == Go(a \div b, a % b, 0)
        up == 2 * d[2] > b \/ (2 * d[2] = b /\ d[1] % 2 = 1)
    IN  Float32(neg, IF up THEN d[1] + 1 ELSE d[1], d[3])

\* sample / 32768.0 for a negative sample, sample / 32767.0 otherwise
DecodeSample(x) == IF x < 0 THEN Fround(TRUE, -x, 32768) ELSE Fround(FALSE, x, 32767)

Int16Values == -32768..32767

RoundTripInit ==
    /\ variant = "script"
    /\ contextRate \in ContextRates
    /\ HookInit
    /\ AppInit
    /\ pcmIn \in Int16Values
    /\ ViewerIdle
    /\ inputBuffer = <<<<DecodeSample(pcmIn)>>>>
    /\ pcmOut = NoFrame
    /\ encoder = "idle"

SpecRoundTrip == RoundTripInit /\ [][CodecNext]_vars

\* C11 as claimed: the frame encoded from the decoded sample holds the
\* sample again (twice, the chunk being mono).
C11_RoundTrip == Encoded => pcmOut.data = <<pcmIn, pcmIn>>

(***************************************************************************)
(* Claims about the encoder (checked under SpecCodec).                     *)
(***************************************************************************)

FrameCount == IF Len(inputBuffer) = 0 THEN 0 ELSE Len(inputBuffer[1])

\* The mapping as the claim states it, on the number n / Den.
ClaimedSample(n) ==
    LET c == IF n < -Den THEN -Den ELSE IF n > Den THEN Den ELSE n
        p == IF n < 0 THEN c * 32768 ELSE c * 32767
    IN  IF p >= 0 THEN p \div Den ELSE -((-p) \div Den)

\* The pairs <<input sample, 16-bit sample stored for it>> of the encoded chunk.
SamplePairs ==
    {<<inputBuffer[1][i], pcmOut.data[2 * i - 1]>> : i \in 1..FrameCount} \cup
    (IF Len(inputBuffer) > 1
     THEN {<<inputBuffer[2][i], pcmOut.data[2 * i]>> : i \in 1..FrameCount}
     ELSE {})

\* C2: every sample that is a number is encoded as clamp, scale by 32768
\* (negative) or 32767 (non-negative), truncate toward zero; every encoded
\* sample lies in [-32768, 32767]; -1, 0 and +1 encode to -32768, 0 and 32767
\* and a sample outside [-1,1] encodes as the nearest bound does.
C2_EncoderMapping ==
    Encoded =>
        \A pr \in SamplePairs :
            /\ pr[2] \in -32768..32767
            /\ ~pr[1].nan =>
                /\ pr[2] = ClaimedSample(pr[1].n)
                /\ (pr[1].n <= -Den) => pr[2] = -32768
                /\ (pr[1].n >= Den) => pr[2] = 32767
                /\ (pr[1].n = 0) => pr[2] = 0

C2_Witness ==
    /\ Encoded
    /\ \E pr \in SamplePairs : pr[1] = Num(-3) /\ pr[2] = -9830
    /\ \E pr \in SamplePairs : pr[1] = Num(Den + 1) /\ pr[2] = 32767

\* C3: a frame produced for a chunk of N frames holds exactly 2N samples,
\* sample 2i the encoding of left sample i and sample 2i+1 the encoding of
\* right sample i (0-based), so its length is even.
C3_Interleaving ==
    Encoded =>
        /\ Len(pcmOut.data) = 2 * FrameCount
        /\ Len(pcmOut.data) % 2 = 0
        /\ \A i \in 1..FrameCount :
            /\ pcmOut.data[2 * i - 1] = EncodeSample(inputBuffer[1][i])
            /\ Len(inputBuffer) > 1 => pcmOut.data[2 * i] = EncodeSample(inputBuffer[2][i])

C3_Witness ==
    /\ Encoded
    /\ Len(inputBuffer) = 2
    /\ FrameCount = 2
    /\ pcmOut.data = <<-32768, 32767, 22936, -9830>>

\* C10: for a single-channel chunk the right sample of every frame equals
\* the left sample.
C10_MonoDuplicated ==
    (Encoded /\ Len(inputBuffer) = 1) =>
        \A i \in 1..FrameCount : pcmOut.data[2 * i] = pcmOut.data[2 * i - 1]

C10_Witness ==
    /\ Encoded
    /\ Len(inputBuffer) = 1
    /\ FrameCount = 2
    /\ pcmOut.data = <<22936, 22936, -32768, -32768>>


(***************************************************************************)
(* The client as a whole.                                                  *)
(***************************************************************************)
Init ==
    /\ variant \in {"script", "worklet"}
    /\ contextRate \in ContextRates
    /\ HookInit
    /\ AppInit
    /\ inputBuffer = <<>>
    /\ pcmOut = NoFrame
    /\ encoder = "idle"
    /\ pcmIn = 0
    /\ ViewerIdle

Next ==
    \/ EffectSetup
    \/ EffectCleanup
    \/ \E s \in 1..Len(sockets) : WsOpen(s)
    \/ \E s \in 1..Len(sockets) : WsClose(s)
    \/ \E s \in 1..Len(sockets) : \E data \in ServerMessages : WsMessage(s, data)
    \/ ClickInitialize
    \/ \E c \in 1..Len(calls) : GetUserMediaResolve(c)
    \/ \E c \in 1..Len(calls) : GetUserMediaReject(c)
    \/ \E c \in 1..Len(calls) : AddModuleResolve(c)
    \/ \E c \in 1..Len(calls) : AddModuleReject(c)
    \/ \E c \in 1..Len(calls) : \E buf \in StreamBuffers : OnAudioProcess(c, buf)
    \/ \E c \in 1..Len(calls) : \E input \in StreamBuffers \cup {<<>>} : WorkletProcess(c, input)
    \/ \E c \in 1..Len(calls) : PortOnMessage(c)
    \/ ClickStartRecording
    \/ ClickStopRecording
    \/ \E v \in SliderEnds(GainMin, GainMax) : SetGain(v)
    \/ \E v \in SliderEnds(IntegrationMin, IntegrationMax) : SetIntegrationTime(v)
    \/ ToggleFilter
    \/ \E v \in SliderEnds(CutoffMin, CutoffMax) : SetCutoff(v)
    \/ FlushEffects
    \/ \E confirmed \in BOOLEAN : DeleteRecording(confirmed)
    \/ \E outcome \in DeleteOutcomes : DeleteAnswered(outcome)

Spec == Init /\ [][Next]_vars

(***************************************************************************)
(* Claims about the connection and what is sent on it (checked under Spec). *)
(***************************************************************************)
SocketIds == 1..Len(sockets)

CallIds == 1..Len(calls)

\* C1: on every socket the first message sent is init: nothing is sent on a
\* socket that has not opened, and a socket on which anything was sent had
\* init sent first.
C1_InitFirst ==
    \A s \in SocketIds :
        /\ sockets[s].readyState = "CONNECTING" => sockets[s].count = 0
        /\ sockets[s].count > 0 => sockets[s].first.action = "init"

\* A socket on which init was followed by a frame and then by set_params.
C1_Witness ==
    \E s \in SocketIds :
        /\ sockets[s].count >= 3
        /\ sockets[s].first.action = "init"
        /\ Len(sockets[s].frames) > 0
        /\ sockets[s].last.action = "set_params"

\* The frames sent on socket s by the step.
SentFrames(s) ==
    SubSeq(sockets'[s].frames, Len(sockets[s].frames) + 1, Len(sockets'[s].frames))

\* The step brings a chunk of pipeline c to the main thread: onaudioprocess
\* runs (useAudioStream.ts), or the port delivers the oldest posted chunk.
ChunkArrives(c) ==
    IF variant = "script"
    THEN calls'[c].captured = calls[c].captured + 1
    ELSE Len(calls[c].port) > 0 /\ calls'[c].port = Tail(calls[c].port)

ArrivingChunk(c) ==
    IF variant = "script" THEN <<c, calls[c].captured + 1>> ELSE Head(calls[c].port).chunk

C4_Step ==
    /\ \A s \in SocketIds :
          SubSeq(sockets'[s].frames, 1, Len(sockets[s].frames)) = sockets[s].frames
    /\ \A c \in CallIds :
          ChunkArrives(c) =>
              IF socketRef # 0 /\ sockets[socketRef].readyState = "OPEN"
              THEN /\ Len(SentFrames(socketRef)) = 1
                   /\ SentFrames(socketRef)[1].chunk = ArrivingChunk(c)
                   /\ \A s \in SocketIds \ {socketRef} : SentFrames(s) = <<>>
              ELSE \A s \in SocketIds : SentFrames(s) = <<>>
    /\ (~ \E c \in CallIds : ChunkArrives(c)) => \A s \in SocketIds : SentFrames(s) = <<>>

\* Every frame sent carries a chunk its pipeline captured, no chunk was sent
\* twice, and on a socket the chunks of one pipeline are in capture order.
C4_Order ==
    /\ \A s \in SocketIds : \A i \in 1..Len(sockets[s].frames) :
          LET f == sockets[s].frames[i]
          IN  /\ f.chunk[1] \in CallIds
              /\ f.chunk[2] \in 1..calls[f.chunk[1]].captured
              /\ \E buf \in StreamBuffers : f.data = EncodePCM(buf[1], buf[2])
              /\ \A j \in 1..Len(sockets[s].frames) :
                    (i < j /\ sockets[s].frames[j].chunk[1] = f.chunk[1])
                        => f.chunk[2] < sockets[s].frames[j].chunk[2]
              /\ \A r \in SocketIds \ {s} : \A j \in 1..Len(sockets[r].frames) :
                    sockets[r].frames[j].chunk # f.chunk

\* C4 (amended): a chunk that reaches the main thread while the socket is
\* open is sent as exactly one binary message, in that step; one that
\* reaches it while the socket is not open is dropped, and no frame is sent
\* in any other step, so a dropped chunk is never sent later; the frames of
\* one pipeline are sent in capture order and each carries a captured chunk.
C4_OneMessagePerArrivingChunk == []C4_Order /\ [][C4_Step]_vars

\* One pipeline captured two chunks: one was dropped, the other sent.
C4_Witness ==
    \E c \in CallIds :
        /\ calls[c].captured = 2
        /\ calls[c].port = <<>>
        /\ \E s \in SocketIds :
              /\ Len(sockets[s].frames) = 1
              /\ sockets[s].frames[1].chunk = <<c, 2>>

\* C4 as claimed: a chunk captured while the socket is not open is never
\* sent, so every frame sent was captured while the socket was open.
C4_NotOpenChunkNeverSent ==
    \A s \in SocketIds : \A i \in 1..Len(sockets[s].frames) :
        sockets[s].frames[i].openAtCapture


\* C5 as claimed: a start_record message carries the sample rate of the
\* init message sent on its connection.
C5_SampleRateSetOnce ==
    \A s \in SocketIds :
        sockets[s].last.action = "start_record"
            => sockets[s].last.sample_rate = sockets[s].first.sample_rate

(***************************************************************************)
(* What happens without the user: the browser establishes a connection     *)
(* that was asked for, React runs the effects it scheduled, and the event  *)
(* loop delivers the messages posted to a port.                            *)
(***************************************************************************)
LiveSpec ==
    /\ Spec
    /\ WF_vars(\E s \in SocketIds : WsOpen(s))
    /\ WF_vars(FlushEffects)
    /\ WF_vars(\E c \in CallIds : PortOnMessage(c))

\* The hook is mounted and the socket it holds has closed.
Disconnected ==
    /\ effectActive
    /\ socketRef # 0
    /\ sockets[socketRef].readyState = "CLOSED"

\* C6 as claimed: once the hook's socket has closed while the hook is
\* mounted, the hook comes to hold an open connection again (or is unmounted).
C6_AutoReconnect == Disconnected ~> (~effectActive \/ IsOpen(socketRef))

C7_State ==
    /\ sessionId = sessionIdRef
    /\ lastFetch \in {0, sessionIdRef}
    /\ \A s \in SocketIds : sockets[s].session_id = sessionIdRef

\* C7: the identifier held by sessionIdRef never changes, and it is the one
\* the hook returns, the one in the URL of every socket and the one of
\* every request for the list of recordings.
C7_SessionIdConstant == []C7_State /\ [][sessionIdRef' = sessionIdRef]_vars

\* Two connections were made, the second opened (which renders App again),
\* and the list of recordings was requested.
C7_Witness ==
    /\ Len(sockets) >= 2
    /\ IsOpen(socketRef)
    /\ isConnected
    /\ lastFetch = sessionId

\* C8 as claimed: a set_params message carries an integration_time above 0.
C8_IntegrationTimePositive ==
    \A s \in SocketIds :
        sockets[s].last.action = "set_params" => sockets[s].last.integration_time > 0

\* C9 as claimed: a set_params message carries a gain within [0, 60] dB (here
\* in tenths of a dB) and a cutoff_freq within [100, 5000] Hz, which is below
\* half the sample rate declared by the init message of its connection.
C9_ParamsInRange ==
    \A s \in SocketIds :
        sockets[s].last.action = "set_params" =>
            /\ sockets[s].last.gain \in 0..600
            /\ sockets[s].last.cutoff_freq \in 100..5000
            /\ 2 * sockets[s].last.cutoff_freq < sockets[s].first.sample_rate

(***************************************************************************)
(* Claims about the messages received (checked under Spec).                *)
(***************************************************************************)
\* The step is a run of ws.onmessage.
Receives == received' # received

\* C12: a step that handles a recording_saved message sets lastRecording to
\* the id and filename of the message and isRecording to false and leaves
\* rms, spectrum, panning and isConnected as they are; no other step changes
\* lastRecording.
C12_RecordingSaved ==
    [][/\ (Receives /\ received'.data.type = "recording_saved") =>
            /\ lastRecording' = <<[id |-> received'.data.id,
                                   filename |-> received'.data.filename]>>
            /\ isRecording' = FALSE
            /\ UNCHANGED <<rms, spectrum, panning, isConnected>>
       /\ (lastRecording' # lastRecording) =>
            (Receives /\ received'.data.type = "recording_saved")]_vars

\* A recording was started and the notice of recording 2 arrived.
C12_Witness ==
    /\ received.data.type = "recording_saved"
    /\ lastRecording = <<[id |-> 2, filename |-> "rec2.wav"]>>
    /\ ~isRecording
    /\ \E s \in SocketIds : sockets[s].last.action = "start_record"

\* C13: a step that handles a meter message sets rms to the message's rms,
\* spectrum and panning to the message's when it carries them and leaves
\* them otherwise, and leaves isRecording, lastRecording and isConnected.
C13_Meter ==
    [][(Receives /\ received'.data.type = "meter") =>
            /\ rms' = received'.data.rms
            /\ spectrum' = IF received'.data.hasSpectrum
                            THEN received'.data.spectrum ELSE spectrum
            /\ panning' = IF received'.data.hasPanning
                           THEN received'.data.panning ELSE panning
            /\ UNCHANGED <<isRecording, lastRecording, isConnected>>]_vars

\* A meter message without spectrum and panning came after one with them:
\* rms is the later one's, spectrum and panning are the earlier one's.
C13_Witness ==
    /\ received.data.type = "meter"
    /\ ~received.data.hasSpectrum
    /\ rms = -30
    /\ spectrum = <<1>>
    /\ panning = 1

(***************************************************************************)
(* Claims about recording (checked under Spec and LiveSpec).               *)
(***************************************************************************)
\* The step sends a message of the given kind on socket s.
Sends(s, action) ==
    /\ sockets'[s].count > sockets[s].count
    /\ sockets'[s].last.action = action

\* C14: start_record is sent only while isRecording is false, and the step
\* that sends it sets isRecording; isRecording becomes true in no other
\* step, and becomes false only in a step that handles recording_saved.  So
\* between two start_record messages a recording_saved was received.
C14_TwoStateRecording ==
    [][/\ \A s \in SocketIds :
            Sends(s, "start_record") => (~isRecording /\ isRecording')
       /\ (~isRecording /\ isRecording') =>
            \E s \in SocketIds : Sends(s, "start_record")
       /\ (isRecording /\ ~isRecording') =>
            (Receives /\ received'.data.type = "recording_saved")]_vars

\* start_record and then stop_record were sent: the client is still
\* recording, the notice not having come.
C14_Witness ==
    /\ isRecording
    /\ \E s \in SocketIds :
          /\ sockets[s].readyState = "OPEN"
          /\ sockets[s].last.action = "stop_record"
          /\ sockets[s].count >= 3

\* C15 as claimed: when the socket the hook holds has closed, isRecording
\* is false.
C15_ClosedNotRecording ==
    (socketRef # 0 /\ sockets[socketRef].readyState = "CLOSED") => ~isRecording

\* stopRecording has sent stop_record on the hook's open connection and
\* nothing was sent after it.
StopRecordSent ==
    /\ socketRef # 0
    /\ sockets[socketRef].readyState = "OPEN"
    /\ sockets[socketRef].last.action = "stop_record"

\* C16 as claimed: after stop_record was sent on an open connection,
\* isRecording becomes false or the connection stops being open, whether or
\* not the server sends recording_saved.
C16_StopEndsRecording ==
    StopRecordSent ~> (~isRecording \/ sockets[socketRef].readyState # "OPEN")

(***************************************************************************)
(* Claims about the state of the socket (checked under Spec).              *)
(***************************************************************************)
ControlActions == {"start_record", "stop_record", "set_params"}

\* C17: a step that sends on a socket leaves that socket OPEN, and sends
\* nothing on a socket that was closing or closed; start_record, stop_record
\* and set_params are sent on the socket the hook holds, which was OPEN
\* before the step.  A startRecording, stopRecording or setSettings call
\* made while that socket is not open changes no socket and leaves nothing
\* waiting to be sent.
C17_SendOnlyWhenOpen ==
    [][/\ \A s \in SocketIds :
            /\ sockets'[s].count > sockets[s].count =>
                  sockets'[s].readyState = "OPEN"
            /\ sockets[s].readyState \in {"CLOSING", "CLOSED"} =>
                  /\ sockets'[s].count = sockets[s].count
                  /\ sockets'[s].last = sockets[s].last
                  /\ sockets'[s].frames = sockets[s].frames
            /\ (sockets'[s].count > sockets[s].count
                    /\ sockets'[s].last.action \in ControlActions) =>
                  (s = socketRef /\ sockets[s].readyState = "OPEN")
       /\ (socketRef = 0 \/ sockets[socketRef].readyState # "OPEN") =>
            /\ (ClickStartRecording \/ ClickStopRecording) =>
                  UNCHANGED <<sockets, calls, isRecording, paramsEffectPending>>
            /\ (FlushEffects /\ paramsEffectPending) =>
                  (UNCHANGED <<sockets, calls, isRecording>> /\ ~paramsEffectPending')]_vars

\* The socket the hook holds has closed; the parameters were edited after
\* that and the effect has run: the last message on the socket is the
\* set_params sent while it was open, with the values from before the edit.
C17_Witness ==
    /\ socketRef # 0
    /\ sockets[socketRef].readyState = "CLOSED"
    /\ ~paramsEffectPending
    /\ sockets[socketRef].last.action = "set_params"
    /\ sockets[socketRef].last.gain # gain

\* The socket the hook holds has fired its open event (onopen sends init)
\* and has not fired its close event.
HeldSocketConnected ==
    /\ socketRef # 0
    /\ sockets[socketRef].count > 0
    /\ sockets[socketRef].readyState # "CLOSED"

\* C18 as claimed: isConnected is true exactly when the socket held in
\* socketRef has fired open and not yet close.
C18_IsConnectedTracksSocket == isConnected <=> HeldSocketConnected

\* setSettings(gain, filterEnabled, cutoff, integrationTime) of the current
\* render of App would send this.
CurrentParams == SetParamsMsg(gain, filterEnabled, cutoff, integrationTime)

\* C19 as claimed: when the socket the hook holds is open and no effect of
\* App is waiting to run, the latest set_params sent on it carries the
\* current gain, filter_enabled, cutoff_freq and integration_time.
C19_ParamsReachSession ==
    (socketRef # 0 /\ sockets[socketRef].readyState = "OPEN" /\ ~paramsEffectPending)
      => sockets[socketRef].params = CurrentParams

(***************************************************************************)
(* Claims about the capture pipeline (checked under Spec).                 *)
(***************************************************************************)
\* The invocations of startAudio whose pipeline is capturing.
CapturingCalls == {c \in CallIds : Capturing(c)}

\* C20 as claimed: at most one capture pipeline feeds the hook's socket.
C20_OnePipeline == Cardinality(CapturingCalls) <= 1

(***************************************************************************)
(* Claims about a start-up that fails (checked under Spec).                *)
(***************************************************************************)
\* Invocation c of startAudio ended in one of its catch blocks.
Failed(c) == calls[c].pc = "failed"

\* No chunk of invocation c was captured, is waiting on a port or was sent.
NothingCaptured(c) ==
    /\ calls[c].captured = 0
    /\ calls[c].port = <<>>
    /\ \A s \in SocketIds : \A i \in 1..Len(sockets[s].frames) :
          sockets[s].frames[i].chunk[1] # c

C21_FailedStep ==
    \A c \in CallIds :
        /\ (~Failed(c) /\ calls'[c].pc = "failed") =>
              /\ started'
              /\ UNCHANGED <<sockets, socketRef, isConnected, isRecording>>
        /\ Failed(c) => calls'[c] = calls[c]

\* C21: the step in which an invocation of startAudio fails (getUserMedia
\* rejects, addModule rejects, or the node cannot be made) lets handleStart
\* go on to set started and leaves every socket, socketRef, isConnected and
\* isRecording as they were; a failed invocation stays as it is, captures
\* nothing and none of the frames sent on any socket is its.
C21_StartupFailure ==
    /\ [](\A c \in CallIds : Failed(c) => NothingCaptured(c))
    /\ [][C21_FailedStep]_vars

\* AudioWorklet version: the module of invocation c failed to load after its
\* context was made; the socket is open and carries more than init.
C21_Witness ==
    \E c \in CallIds :
        /\ Failed(c)
        /\ calls[c].ctx # 0
        /\ started
        /\ socketRef # 0
        /\ sockets[socketRef].readyState = "OPEN"
        /\ isConnected
        /\ sockets[socketRef].count >= 2

\* C22: a step that handles a message whose type is neither meter nor
\* recording_saved (another type, or none) leaves rms, spectrum, panning,
\* isRecording, lastRecording and isConnected as they were and sends
\* nothing: no socket changes.
C22_OtherTypesIgnored ==
    [][(Receives /\ received'.data.type \notin {"meter", "recording_saved"}) =>
          UNCHANGED <<rms, spectrum, panning, isRecording, lastRecording, isConnected,
                      sockets, socketRef>>]_vars

\* A message of another type, carrying an rms, was handled while recording:
\* rms is the initial one and the recording goes on.
C22_Witness ==
    /\ received.data.type = "other"
    /\ received.data.rms # rms
    /\ isRecording

(***************************************************************************)
(* Teardown.  The behaviors start in the state of Spec in which the hook   *)
(* is mounted, its socket opened before the click on Initialize (init with *)
(* the fallback rate, then set_params from App's effect), and the one      *)
(* invocation of startAudio has its pipeline running; from there the       *)
(* steps are those that need no click, edit or server message.             *)
(***************************************************************************)
PipelineRunning ==
    /\ sessionIdRef = 1
    /\ sessionId = 1
    /\ gain = 0
    /\ cutoff = 1000
    /\ filterEnabled = FALSE
    /\ integrationTime = 50
    /\ sockets = <<[readyState |-> "OPEN", session_id |-> 1, count |-> 2,
                    first |-> InitMsg(44100, 2), last |-> CurrentParams,
                    params |-> CurrentParams, frames |-> <<>>]>>
    /\ socketRef = 1
    /\ contexts = <<[sampleRate |-> contextRate, channelCount |-> 2,
                     moduleLoaded |-> (variant = "worklet"), closed |-> FALSE]>>
    /\ audioContextRef = 1
    /\ calls = <<[pc |-> "running", ctx |-> 1, captured |-> 0, port |-> <<>>]>>
    /\ isConnected = TRUE
    /\ isRecording = FALSE
    /\ rms = -100
    /\ spectrum = <<>>
    /\ panning = 0
    /\ lastRecording = <<>>
    /\ received = [data |-> [type |-> "none"], flip |-> FALSE]
    /\ effectActive = TRUE
    /\ started = TRUE
    /\ paramsEffectPending = FALSE
    /\ fetchPending = FALSE
    /\ lastFetch = 1
    /\ library = [fetches |-> 1, mounts |-> 1, notices |-> 0, deletes |-> 0, pending |-> 0]
    /\ inputBuffer = <<>>
    /\ pcmOut = NoFrame
    /\ encoder = "idle"
    /\ pcmIn = 0
    /\ ViewerIdle

\* Spec reaches PipelineRunning with the click on Initialize counted.
PipelineRunningReached == PipelineRunning /\ events = 1

TeardownInit ==
    /\ variant \in {"script", "worklet"}
    /\ contextRate \in ContextRates
    /\ PipelineRunning
    /\ events = 0

TeardownNext ==
    \/ EffectCleanup
    \/ EffectSetup
    \/ \E s \in 1..Len(sockets) : WsOpen(s)
    \/ \E s \in 1..Len(sockets) : WsClose(s)
    \/ \E c \in 1..Len(calls) : \E buf \in StreamBuffers : OnAudioProcess(c, buf)
    \/ \E c \in 1..Len(calls) : \E input \in StreamBuffers \cup {<<>>} : WorkletProcess(c, input)
    \/ \E c \in 1..Len(calls) : PortOnMessage(c)
    \/ FlushEffects

SpecTeardown == TeardownInit /\ [][TeardownNext]_vars

\* After the cleanup the socket the hook holds is no longer open or
\* connecting and the context it holds is closed.
C23_Closed ==
    ~effectActive =>
        /\ socketRef # 0 => sockets[socketRef].readyState \in {"CLOSING", "CLOSED"}
        /\ audioContextRef # 0 => contexts[audioContextRef].closed

\* A frame sent in this step was captured by a context that is not closed.
C23_Step ==
    \A s \in SocketIds :
        Len(sockets'[s].frames) > Len(sockets[s].frames) =>
            LET f == sockets'[s].frames[Len(sockets'[s].frames)]
            IN  ~contexts[calls[f.chunk[1]].ctx].closed

\* C23 as claimed: the cleanup closes the socket and the context, and no
\* chunk captured by a context is sent, on any socket, once that context
\* has been closed.
C23_NothingAfterCleanup == []C23_Closed /\ [][C23_Step]_vars

(***************************************************************************)
(* Claims about the list of recordings (checked under Spec).               *)
(***************************************************************************)
\* What the claim counts a fetch for: each set-up of the effects (the fetch
\* on mount), each recording_saved received, each DELETE answered ok.
RefetchCauses == library.mounts + library.notices + library.deletes

\* C24 as claimed: once the effects have run (they were set up once, at the
\* mount), GET /recordings was requested exactly once for the mount, once
\* for every recording_saved received and once for every successful delete.
C24_RefetchPerNotice ==
    (effectActive /\ library.mounts = 1 /\ ~fetchPending)
        => library.fetches = RefetchCauses

C24_Step ==
    /\ (Receives /\ received'.data.type = "recording_saved") => fetchPending'
    /\ (fetchPending /\ ~fetchPending') => library'.fetches = library.fetches + 1
    /\ library'.deletes # library.deletes => library'.fetches = library.fetches + 1
    /\ library'.fetches # library.fetches =>
          /\ library'.fetches = library.fetches + 1
          /\ lastFetch' = sessionId
          /\ \/ fetchPending /\ ~fetchPending'
             \/ library'.deletes = library.deletes + 1
             \/ library'.mounts = library.mounts + 1

\* C24, amended: every recording_saved received schedules a re-fetch, also
\* when it carries the id and filename of the one before, and a scheduled
\* re-fetch is made when React runs the effect; a DELETE answered ok makes
\* one re-fetch at once.  Every fetch is for the hook's session id and has
\* one of these causes or is the fetch on mount, and notices received
\* before React runs the effect share one re-fetch: the fetches are at most
\* the causes.
C24_RefetchFollows ==
    /\ [](library.fetches <= RefetchCauses)
    /\ [][C24_Step]_vars

\* Two recording_saved messages were received and the effects have run:
\* one re-fetch was made after the fetch on mount.
C24_Witness ==
    /\ effectActive
    /\ ~fetchPending
    /\ library.notices = 2
    /\ library.mounts = 1
    /\ library.fetches = 2

(***************************************************************************)
(* PanningViewer on its own: one value of the pan prop, drawn by the       *)
(* component's effect.  pan stands for pan / PanDen; PanDen is a power of  *)
(* two, so that every step of the computation is exact in a double.  A     *)
(* coordinate is kept as a fraction num / den.                             *)
(***************************************************************************)
PanDen == 64

\* <canvas ref={canvasRef} width={600} height={50}>
CanvasWidth == 600

\* ctx.arc(x, y, 6, 0, 2 * Math.PI)
Radius == 6

\* ctx.moveTo(10, centerY); ctx.lineTo(width - 10, centerY)
AxisMargin == 10

\* const padding = 20
Padding == 20

\* const trackWidth = width - 2 * padding
TrackWidth(width) == width - 2 * Padding

\* const normalizedPan = (pan + 1) / 2; const x = padding + (normalizedPan * trackWidth)
IndicatorX(p, width) ==
    [num |-> 2 * PanDen * Padding + (p + PanDen) * TrackWidth(width), den |-> 2 * PanDen]

PanInit ==
    /\ variant = "script"
    /\ contextRate \in ContextRates
    /\ HookInit
    /\ AppInit
    /\ inputBuffer = <<>>
    /\ pcmOut = NoFrame
    /\ encoder = "idle"
    /\ pcmIn = 0
    /\ pan \in -PanDen..PanDen
    /\ indicator = NotDrawn

\* The effect of PanningViewer (deps [pan]) draws the indicator.
DrawPan ==
    /\ ~indicator.drawn
    /\ indicator' = [drawn |-> TRUE, x |-> IndicatorX(pan, CanvasWidth)]
    /\ UNCHANGED <<envVars, hookVars, appVars, codecVars, pan>>

SpecPan == PanInit /\ [][DrawPan]_vars

\* The x the claim gives for pan: AxisMargin + Radius at -1,
\* width - AxisMargin - Radius at 1, linear in between.
ClaimedX(p, width) ==
    [num |-> 2 * PanDen * (AxisMargin + Radius)
                + (p + PanDen) * (width - 2 * (AxisMargin + Radius)),
     den |-> 2 * PanDen]

\* C25 as claimed: the indicator is drawn at x = 10 + radius for pan = -1,
\* at x = width - 10 - radius for pan = 1, at the centre for pan = 0,
\* linearly in between, and never outside those two positions.
C25_PanToX ==
    indicator.drawn =>
        /\ indicator.x.num * ClaimedX(pan, CanvasWidth).den
              = ClaimedX(pan, CanvasWidth).num * indicator.x.den
        /\ indicator.x.num >= (AxisMargin + Radius) * indicator.x.den
        /\ indicator.x.num <= (CanvasWidth - AxisMargin - Radius) * indicator.x.den

====
